---- MODULE Spec2Model ----
(***************************************************************************)
(* Model of example_scenarios/audio_spectrogram_classification.py:         *)
(* the segment() function and AudioSpectrogramClassificationTask._evaluate *)
(*                                                                         *)
(* An array of shape (F, n, 1, ..) is a view of a spectrogram: the         *)
(* spectrogram it is cut from (src, kind), the time bins [lo, hi) of it    *)
(* that it covers, and the number of trailing singleton dimensions (dims). *)
(* All F frequency bins of a time bin stay together, and two spectrograms  *)
(* share no content, so two views are equal exactly when the arrays are.   *)
(* A batch x is a sequence of arrays and y the sequence of their labels.   *)
(***************************************************************************)
EXTENDS Integers, Sequences, FiniteSets, TLC

VARIABLES
    segX, segY, segW, segOut, segPc,   \* a call of segment(x, y, n_time_bins)
    segAgain,              \* what segment() returns for its own output
    config,                \* the config dict of _evaluate
    env,                   \* what the run has read of its datasets so far:
                           \* nb_epochs, and per split loaded its batches per epoch
    pc, err,               \* position in _evaluate, exception raised
    learning_phase,        \* classifier.set_learning_phase
    trainPos,              \* batches the training generator has yielded
    cnt,                   \* the local cnt
    valLeft,               \* batches left in val_data_generator
    validation_accuracies, \* the local list
    testLeft,              \* batches left in test_data_generator (attack loop)
    calls,                 \* calls made to the collaborators, in order
    last                   \* the batch of the latest loop body and what was passed on

segVars == <<segX, segY, segW, segOut, segPc, segAgain>>
runVars == <<config, env, pc, err, learning_phase, trainPos, cnt, valLeft,
             validation_accuracies, testLeft, calls, last>>
vars == <<segVars, runVars>>

----------------------------------------------------------------------------
(* Bounds *)
MaxN == 2        \* examples in a batch handed to segment() on its own
MaxT == 5        \* time bins of such an example
MaxW == 3        \* window widths tried for segment() on its own
MaxEpochs == 2       \* fit_kwargs["nb_epochs"]
MaxPerEpoch == 2     \* train_data_generator.batches_per_epoch
MaxValBatches == 1   \* batches of the validation split
MaxTestBatches == 2  \* batches of the test split
MaxAdvBatches == 1   \* batches of the adversarial split
MaxBatchSize == 1    \* examples in a batch a dataset yields

Min(a, b) == IF a < b THEN a ELSE b

----------------------------------------------------------------------------
(* segment(), lines 30-52 *)

\* int(a / b) for a >= 0, b > 0: true division, then truncation toward zero
IntDiv(a, b) == a \div b

\* xt.shape[1]
Shape1(xt) == xt.hi - xt.lo

\* xt[:, a:b] with 0 <= a <= b: Python clamps both ends to the shape
Slice(xt, a, b) ==
    [xt EXCEPT !.lo = Min(xt.lo + a, xt.hi), !.hi = Min(xt.lo + b, xt.hi)]

\* an output that keeps the shape of the windows
ExpandDimsNone(xs) == xs

\* np.expand_dims(np.array(x_seg), -1): one more trailing dimension of size 1
ExpandDims(xs) == [k \in 1..Len(xs) |-> [xs[k] EXCEPT !.dims = @ + 1]]

\* a ceiling instead of the truncation
NSegCeil(xt, n_time_bins) == (Shape1(xt) + n_time_bins - 1) \div n_time_bins

\* n_seg of one example (line 44)
NSeg(xt, n_time_bins) == IntDiv(Shape1(xt), n_time_bins)

\* windows that start one time bin late
WindowsShifted(xt, n_time_bins) ==
    [ii \in 1..NSeg(xt, n_time_bins) |->
        Slice(xt, (ii - 1) * n_time_bins + 1, ii * n_time_bins + 1)]

\* the truncation and the windows the inner loop appends (lines 45-47)
Windows(xt, n_time_bins) ==
    LET n_seg == NSeg(xt, n_time_bins)
        xtt   == Slice(xt, 0, n_seg * n_time_bins)
    IN  [ii \in 1..n_seg |-> Slice(xtt, (ii - 1) * n_time_bins, ii * n_time_bins)]

\* the labels appended for one example (line 48)
Replicate(yt, n) == [ii \in 1..n |-> yt]

\* the loop over zip(x, y) from example i on (lines 43-48)
RECURSIVE SegLoop(_, _, _, _)
SegLoop(x, y, n_time_bins, i) ==
    IF i > Min(Len(x), Len(y))
    THEN [x_seg |-> <<>>, y_seg |-> <<>>]
    ELSE LET rest == SegLoop(x, y, n_time_bins, i + 1)
         IN  [x_seg |-> Windows(x[i], n_time_bins) \o rest.x_seg,
              y_seg |-> Replicate(y[i], NSeg(x[i], n_time_bins)) \o rest.y_seg]

segment(x, y, n_time_bins) ==
    LET r == SegLoop(x, y, n_time_bins, 1)
    IN  [x |-> ExpandDims(r.x_seg), y |-> r.y_seg]

----------------------------------------------------------------------------
(* segment() called on its own, on every small batch *)

Labels == {0, 1}

\* the whole spectrogram of example i of a batch, with T time bins
Spectrogram(i, T, kind) == [src |-> i, kind |-> kind, lo |-> 0, hi |-> T, dims |-> 0]

SegBatches ==
    UNION {[1..n -> (0..MaxT) \X Labels] : n \in 0..MaxN}

SegInit ==
    /\ \E b \in SegBatches :
          /\ segX = [i \in DOMAIN b |-> Spectrogram(i, b[i][1], "benign")]
          /\ segY = [i \in DOMAIN b |-> b[i][2]]
    /\ segW \in 1..MaxW
    /\ segOut = [x |-> <<>>, y |-> <<>>]
    /\ segAgain = [x |-> <<>>, y |-> <<>>]
    /\ segPc = "ready"

SegCall ==
    /\ segPc = "ready"
    /\ segOut' = segment(segX, segY, segW)
    /\ segPc' = "done"
    /\ UNCHANGED <<segX, segY, segW, segAgain>>

\* segment() called on the output of the first call, with the same width
SegAgain ==
    /\ segPc = "done"
    /\ segAgain' = segment(segOut.x, segOut.y, segW)
    /\ segPc' = "again"
    /\ UNCHANGED <<segX, segY, segW, segOut>>

----------------------------------------------------------------------------
(* The collaborators of _evaluate *)

n_tbins == 100

\* time bins of the examples the datasets hold: shorter than the window, and
\* two windows with a remainder
Durations == {50, 250}

\* what a dataset yields for one batch: per example its time bins, its label
\* and (adversarial split of a targeted attack) its target label
Batches == UNION {[1..n -> [T : Durations, label : Labels]] : n \in 1..MaxBatchSize}
TargetedBatches ==
    UNION {[1..n -> [T : Durations, label : Labels, target : Labels]] : n \in 1..MaxBatchSize}

BenignOf(b) == [i \in DOMAIN b |-> Spectrogram(i, b[i].T, "benign")]
\* the pre-generated adversarial example of a benign one has the same shape
AdversarialOf(b) == [i \in DOMAIN b |-> Spectrogram(i, b[i].T, "adversarial")]
LabelsOf(b) == [i \in DOMAIN b |-> b[i].label]
TargetsOf(b) == [i \in DOMAIN b |-> b[i].target]

\* the (x, y) a generator of load_dataset yields
PlainItem(b) == [x |-> BenignOf(b), y |-> LabelsOf(b)]
\* the (x, y) a generator of load_adversarial_dataset yields
AdvItem(b) == [x |-> <<BenignOf(b), AdversarialOf(b)>>, y |-> LabelsOf(b)]
TargetedItem(b) ==
    [x |-> <<BenignOf(b), AdversarialOf(b)>>, y |-> <<LabelsOf(b), TargetsOf(b)>>]

\* classifier.predict: one prediction per segment
Classify(seg) == IF seg.kind = "benign" THEN 0 ELSE 1
Predict(xs) == [k \in 1..Len(xs) |-> Classify(xs[k])]

\* attack.generate: a perturbed copy of every segment
Generate(xs) == [k \in 1..Len(xs) |-> [xs[k] EXCEPT !.kind = "generated"]]

\* metrics.categorical_accuracy on equal-length label and prediction batches
categorical_accuracy(ys, ps) ==
    [k \in 1..Len(ys) |-> IF ys[k] = ps[k] THEN 1 ELSE 0]

\* one call of a collaborator: what, on what, two numbers, and the learning
\* phase the classifier is in
Call(op, arg, n, m, lp) == [op |-> op, arg |-> arg, n |-> n, m |-> m, lp |-> lp]

\* the latest loop body: the (x, y) the generator yielded, the branch taken,
\* the locals x, y, x_adv, y_target after it, what attack.generate was given,
\* and the labels and predictions given to update_task
Body(branch, item, x, y, x_adv, y_target, gen, taskY, taskP) ==
    [branch |-> branch, item |-> item, x |-> x, y |-> y, x_adv |-> x_adv,
     y_target |-> y_target, gen |-> gen, taskY |-> taskY, taskP |-> taskP]

NoBatch == Body("none", PlainItem(<<>>), <<>>, <<>>, <<>>, <<>>, "none", <<>>, <<>>)

----------------------------------------------------------------------------
(* _evaluate, lines 56-188 *)

Configs == [weights_file : BOOLEAN, attack_type : {"preloaded", "generated"},
            targeted : BOOLEAN, use_label : BOOLEAN]

Loaded(split) == split \in DOMAIN env

\* env once a generator of a split is loaded: a split loaded before has the
\* batches it had then, a new one any number up to max
Load(split, min, max) ==
    IF Loaded(split) THEN {env}
    ELSE {env @@ (split :> n) : n \in min..max}

Init ==
    /\ config \in Configs
    /\ env = <<>>
    /\ pc = "start"
    /\ err = "none"
    /\ learning_phase = "unset"
    /\ trainPos = 0
    /\ cnt = 0
    /\ valLeft = 0
    /\ validation_accuracies = <<>>
    /\ testLeft = 0
    /\ calls = <<>>
    /\ last = NoBatch
    /\ segX = <<>> /\ segY = <<>> /\ segW = 1
    /\ segOut = [x |-> <<>>, y |-> <<>>]
    /\ segAgain = [x |-> <<>>, y |-> <<>>]
    /\ segPc = "idle"

\* lines 60-79: load the model; unless weights are given, enter training
Start ==
    /\ pc = "start"
    /\ IF ~config.weights_file
       THEN /\ learning_phase' = "train"
            /\ \E nb_epochs \in 1..MaxEpochs, batches_per_epoch \in 1..MaxPerEpoch :
                  /\ env' = ("nb_epochs" :> nb_epochs) @@ ("train" :> batches_per_epoch)
                  /\ calls' = calls \o
                        <<Call("load_model", "", 0, 0, learning_phase),
                          Call("set_learning_phase", "train", 0, 0, "train"),
                          Call("load_dataset", "train", nb_epochs, 0, "train")>>
            /\ pc' = "train"
       ELSE /\ calls' = Append(calls, Call("load_model", "", 0, 0, learning_phase))
            /\ pc' = "benign_setup"
            /\ UNCHANGED <<learning_phase, env>>
    /\ UNCHANGED <<config, err, trainPos, cnt, valLeft,
                   validation_accuracies, testLeft, last, segVars>>

\* batches the training generator yields in all
TrainBatches == env["nb_epochs"] * env["train"]

\* a fit that runs all the configured epochs on every batch
TrainBatchAllEpochs ==
    /\ pc = "train"
    /\ trainPos < TrainBatches
    /\ calls' = Append(calls, Call("fit", "train", trainPos + 1, env["nb_epochs"], learning_phase))
    /\ cnt' = trainPos
    /\ trainPos' = trainPos + 1
    /\ pc' = "train_check"
    /\ UNCHANGED <<config, env, err, learning_phase, valLeft,
                   validation_accuracies, testLeft, last, segVars>>

\* lines 81-89: the next training batch is segmented and fitted; nothing of
\* the batch is kept
TrainBatch ==
    /\ pc = "train"
    /\ trainPos < TrainBatches
    /\ calls' = Append(calls, Call("fit", "train", trainPos + 1, 1, learning_phase))
    /\ cnt' = trainPos
    /\ trainPos' = trainPos + 1
    /\ pc' = "train_check"
    /\ UNCHANGED <<config, env, err, learning_phase, valLeft,
                   validation_accuracies, testLeft, last, segVars>>

\* line 91: the batch just fitted ends an epoch
EpochEnd == (cnt + 1) % env["train"] = 0

\* lines 91-101: at an epoch boundary load the validation split
TrainCheck ==
    /\ pc = "train_check"
    /\ IF EpochEnd
       THEN /\ calls' = Append(calls, Call("load_dataset", "validation", 1, trainPos, learning_phase))
            /\ env' \in Load("validation", 0, MaxValBatches)
            /\ valLeft' = env'["validation"]
            /\ cnt' = 0
            /\ validation_accuracies' = <<>>
            /\ pc' = "validate"
       ELSE /\ pc' = "train"
            /\ UNCHANGED <<calls, env, valLeft, cnt, validation_accuracies>>
    /\ UNCHANGED <<config, err, learning_phase, trainPos, testLeft, last, segVars>>

\* lines 102-106: one validation batch
ValBatch ==
    /\ pc = "validate"
    /\ valLeft > 0
    /\ \E b \in Batches :
          LET item   == PlainItem(b)
              seg    == segment(item.x, item.y, n_tbins)
              y_pred == Predict(seg.x)
          IN  /\ calls' = Append(calls, Call("predict", "validation", 0, 0, learning_phase))
              /\ validation_accuracies' =
                    validation_accuracies \o categorical_accuracy(seg.y, y_pred)
              /\ cnt' = cnt + Len(seg.y)
    /\ valLeft' = valLeft - 1
    /\ UNCHANGED <<config, env, pc, err, learning_phase, trainPos, testLeft, last, segVars>>

\* lines 107-108: the validation accuracy; dividing by a zero cnt raises.
\* The list is not read again and is dropped here; cnt keeps its value.
ValEnd ==
    /\ pc = "validate"
    /\ valLeft = 0
    /\ IF cnt = 0
       THEN /\ pc' = "raised"
            /\ err' = "ZeroDivisionError"
       ELSE /\ pc' = "train"
            /\ UNCHANGED err
    /\ validation_accuracies' = <<>>
    /\ UNCHANGED <<config, env, learning_phase, trainPos, cnt, valLeft,
                   testLeft, calls, last, segVars>>

\* line 81: the training generator is exhausted; cnt is not read after the loop
TrainEnd ==
    /\ pc = "train"
    /\ trainPos = TrainBatches
    /\ pc' = "benign_setup"
    /\ cnt' = 0
    /\ UNCHANGED <<config, env, err, learning_phase, trainPos, valLeft,
                   validation_accuracies, testLeft, calls, last, segVars>>

\* a benign set-up that leaves the learning phase as training left it
BenignSetupNoToggle ==
    /\ pc = "benign_setup"
    /\ calls' = calls \o <<Call("load_dataset", "test", 1, 0, learning_phase),
                           Call("MetricsLogger", "", 0, 0, learning_phase)>>
    /\ env' \in Load("test", 0, MaxTestBatches)
    /\ pc' = "benign"
    /\ UNCHANGED <<config, err, learning_phase, trainPos, cnt, valLeft,
                   validation_accuracies, testLeft, last, segVars>>

\* lines 110-121: inference mode, the test split, the metrics logger
BenignSetup ==
    /\ pc = "benign_setup"
    /\ learning_phase' = "infer"
    /\ calls' = calls \o <<Call("set_learning_phase", "infer", 0, 0, "infer"),
                           Call("load_dataset", "test", 1, 0, "infer"),
                           Call("MetricsLogger", "", 0, 0, "infer")>>
    /\ env' \in Load("test", 0, MaxTestBatches)
    /\ pc' = "benign"
    /\ UNCHANGED <<config, err, trainPos, cnt, valLeft,
                   validation_accuracies, testLeft, last, segVars>>

\* a benign loop without the break: every batch of the test split is evaluated
BenignNoBreak ==
    /\ pc = "benign"
    /\ \E b \in Batches :
          LET item   == PlainItem(b)
              seg    == segment(item.x, item.y, n_tbins)
              y_pred == Predict(seg.x)
              each   == [k \in 1..(2 * env["test"]) |->
                            IF k % 2 = 1
                            THEN Call("predict", "benign", 0, 0, learning_phase)
                            ELSE Call("update_task", "benign", 0, 0, learning_phase)]
          IN  /\ calls' = calls \o each \o <<Call("log_task", "benign", 0, 0, learning_phase)>>
              /\ last' = IF env["test"] = 0 THEN last
                         ELSE Body("benign", item, seg.x, seg.y, <<>>, <<>>, "none", seg.y, y_pred)
    /\ pc' = "attack_config"
    /\ UNCHANGED <<config, env, err, learning_phase, trainPos, cnt, valLeft,
                   validation_accuracies, testLeft, segVars>>

\* lines 125-132: the first test batch, if any, then log_task
Benign ==
    /\ pc = "benign"
    /\ \/ /\ env["test"] > 0
          /\ \E b \in Batches :
                LET item   == PlainItem(b)
                    seg    == segment(item.x, item.y, n_tbins)
                    y_pred == Predict(seg.x)
                IN  /\ calls' = calls \o <<Call("predict", "benign", 0, 0, learning_phase),
                                           Call("update_task", "benign", 0, 0, learning_phase),
                                           Call("log_task", "benign", 0, 0, learning_phase)>>
                    /\ last' = Body("benign", item, seg.x, seg.y, <<>>, <<>>, "none", seg.y, y_pred)
       \/ /\ env["test"] = 0
          /\ calls' = Append(calls, Call("log_task", "benign", 0, 0, learning_phase))
          /\ UNCHANGED last
    /\ pc' = "attack_config"
    /\ UNCHANGED <<config, env, err, learning_phase, trainPos, cnt, valLeft,
                   validation_accuracies, testLeft, segVars>>

\* the attack phase set up without the check of targeted against use_label
AttackConfigNoCheck ==
    /\ pc = "attack_config"
    /\ IF config.attack_type = "preloaded"
       THEN /\ calls' = Append(calls, Call("load_adversarial_dataset", "adversarial", 1, 0, learning_phase))
            /\ env' \in Load("adversarial", 0, MaxAdvBatches)
            /\ testLeft' = env'["adversarial"]
       ELSE /\ calls' = calls \o <<Call("load_attack", "", 0, 0, learning_phase),
                                   Call("load_dataset", "test", 1, 0, learning_phase)>>
            /\ env' \in Load("test", 0, MaxTestBatches)
            /\ testLeft' = env'["test"]
    /\ pc' = "attack"
    /\ UNCHANGED <<config, err, learning_phase, trainPos, cnt, valLeft,
                   validation_accuracies, last, segVars>>

\* lines 140-159: the attack configuration; the attack or the adversarial split
AttackConfig ==
    /\ pc = "attack_config"
    /\ IF config.targeted /\ config.use_label
       THEN /\ pc' = "raised"
            /\ err' = "ValueError"
            /\ UNCHANGED <<calls, env, testLeft>>
       ELSE /\ IF config.attack_type = "preloaded"
               THEN /\ calls' = Append(calls, Call("load_adversarial_dataset", "adversarial", 1, 0, learning_phase))
                    /\ env' \in Load("adversarial", 0, MaxAdvBatches)
                    /\ testLeft' = env'["adversarial"]
               ELSE /\ calls' = calls \o <<Call("load_attack", "", 0, 0, learning_phase),
                                           Call("load_dataset", "test", 1, 0, learning_phase)>>
                    /\ env' \in Load("test", 0, MaxTestBatches)
                    /\ testLeft' = env'["test"]
            /\ pc' = "attack"
            /\ UNCHANGED err
    /\ UNCHANGED <<config, learning_phase, trainPos, cnt, valLeft,
                   validation_accuracies, last, segVars>>

\* a preloaded batch whose adversarial segments are generated all the same
PreloadedGenerated(item) ==
    LET y0  == IF config.targeted THEN item.y[1] ELSE item.y
        ben == segment(item.x[1], y0, n_tbins)
    IN  Body("preloaded", item, ben.x, ben.y, Generate(ben.x),
             IF config.targeted THEN segment(item.x[2], item.y[2], n_tbins).y ELSE <<>>,
             "x", <<>>, <<>>)

\* lines 162-169: the pre-generated adversarial batch
Preloaded(item) ==
    LET x0    == item.x[1]
        xa0   == item.x[2]
        adv   == IF config.targeted
                 THEN segment(xa0, item.y[2], n_tbins)
                 ELSE segment(xa0, item.y, n_tbins)
        y0    == IF config.targeted THEN item.y[1] ELSE item.y
        ben   == segment(x0, y0, n_tbins)
    IN  Body("preloaded", item, ben.x, ben.y, adv.x,
             IF config.targeted THEN adv.y ELSE <<>>, "none", <<>>, <<>>)

\* lines 170-172: the attack is given the segments and their labels
LabelConditioned(item) ==
    LET ben == segment(item.x, item.y, n_tbins)
    IN  Body("use_label", item, ben.x, ben.y, Generate(ben.x), <<>>, "x,y", <<>>, <<>>)

\* lines 176-178: the attack is given the segments; y stays the batch's labels
Default(item) ==
    LET ben == segment(item.x, item.y, n_tbins)
    IN  Body("default", item, ben.x, item.y, Generate(ben.x), <<>>, "x", <<>>, <<>>)

\* the true labels reported whatever the attack
RoutedTrue(b) == [b EXCEPT !.taskY = b.y, !.taskP = Predict(b.x_adv)]

\* lines 180-185: predict, then the labels update_task is given
Routed(b) ==
    LET y_pred_adv == Predict(b.x_adv)
    IN  [b EXCEPT !.taskY = IF config.targeted THEN b.y_target ELSE b.y,
                  !.taskP = y_pred_adv]

\* a loop body that leaves the perturbation report out
BodyCallsNoPerturbation(b) ==
    (IF b.gen = "none" THEN <<>>
     ELSE <<Call("generate", b.gen, 0, 0, learning_phase)>>)
    \o <<Call("predict", "adversarial", 0, 0, learning_phase),
         Call("update_task", "adversarial", 0, 0, learning_phase)>>

\* the calls of one body of the attack loop, lines 160-186
BodyCalls(b) ==
    (IF b.gen = "none" THEN <<>>
     ELSE <<Call("generate", b.gen, 0, 0, learning_phase)>>)
    \o <<Call("predict", "adversarial", 0, 0, learning_phase),
         Call("update_task", "adversarial", 0, 0, learning_phase),
         Call("update_perturbation", "", 0, 0, learning_phase)>>

\* a loop body that looks at use_label before the attack type
AttackBatchLabelFirst ==
    /\ pc = "attack"
    /\ testLeft > 0
    /\ testLeft' = testLeft - 1
    /\ IF config.use_label
       THEN \E b \in Batches :
               /\ last' = Routed(LabelConditioned(PlainItem(b)))
               /\ calls' = calls \o BodyCalls(last')
               /\ UNCHANGED <<pc, err>>
       ELSE IF config.attack_type = "preloaded"
       THEN \E item \in IF config.targeted
                        THEN {TargetedItem(b) : b \in TargetedBatches}
                        ELSE {AdvItem(b) : b \in Batches} :
               /\ last' = Routed(Preloaded(item))
               /\ calls' = calls \o BodyCalls(last')
               /\ UNCHANGED <<pc, err>>
       ELSE IF config.targeted
       THEN /\ pc' = "raised"
            /\ err' = "NotImplementedError"
            /\ UNCHANGED <<calls, last>>
       ELSE \E b \in Batches :
               /\ last' = Routed(Default(PlainItem(b)))
               /\ calls' = calls \o BodyCalls(last')
               /\ UNCHANGED <<pc, err>>
    /\ UNCHANGED <<config, env, learning_phase, trainPos, cnt, valLeft,
                   validation_accuracies, segVars>>

\* lines 160-186: one batch of the attack loop
AttackBatch ==
    /\ pc = "attack"
    /\ testLeft > 0
    /\ testLeft' = testLeft - 1
    /\ IF config.attack_type = "preloaded"
       THEN \E item \in IF config.targeted
                        THEN {TargetedItem(b) : b \in TargetedBatches}
                        ELSE {AdvItem(b) : b \in Batches} :
               /\ last' = Routed(Preloaded(item))
               /\ calls' = calls \o BodyCalls(last')
               /\ UNCHANGED <<pc, err>>
       ELSE IF config.use_label
       THEN \E b \in Batches :
               /\ last' = Routed(LabelConditioned(PlainItem(b)))
               /\ calls' = calls \o BodyCalls(last')
               /\ UNCHANGED <<pc, err>>
       ELSE IF config.targeted
       THEN /\ pc' = "raised"
            /\ err' = "NotImplementedError"
            /\ UNCHANGED <<calls, last>>
       ELSE \E b \in Batches :
               /\ last' = Routed(Default(PlainItem(b)))
               /\ calls' = calls \o BodyCalls(last')
               /\ UNCHANGED <<pc, err>>
    /\ UNCHANGED <<config, env, learning_phase, trainPos, cnt, valLeft,
                   validation_accuracies, segVars>>

\* an end of the run that hands the results back before the last log_task
AttackEndResultsFirst ==
    /\ pc = "attack"
    /\ testLeft = 0
    /\ calls' = calls \o <<Call("results", "", 0, 0, learning_phase),
                           Call("log_task", IF config.targeted THEN "targeted" ELSE "adversarial", 0, 0, learning_phase)>>
    /\ pc' = "done"
    /\ UNCHANGED <<config, env, err, learning_phase, trainPos, cnt, valLeft,
                   validation_accuracies, testLeft, last, segVars>>

\* lines 187-188: the generator is exhausted: log_task and the results
AttackEnd ==
    /\ pc = "attack"
    /\ testLeft = 0
    /\ calls' = calls \o <<Call("log_task", IF config.targeted THEN "targeted" ELSE "adversarial", 0, 0, learning_phase),
                           Call("results", "", 0, 0, learning_phase)>>
    /\ pc' = "done"
    /\ UNCHANGED <<config, env, err, learning_phase, trainPos, cnt, valLeft,
                   validation_accuracies, testLeft, last, segVars>>

Next ==
    \/ Start
    \/ TrainBatch
    \/ TrainCheck
    \/ ValBatch
    \/ ValEnd
    \/ TrainEnd
    \/ BenignSetup
    \/ Benign
    \/ AttackConfig
    \/ AttackBatch
    \/ AttackEnd

Spec == Init /\ [][Next]_vars

\* the split the attack loop iterates over, lines 145-159
AttackSplit ==
    IF config.attack_type = "preloaded" THEN "adversarial" ELSE "test"

\* _evaluate with collaborators that may raise. _evaluate has no try block, so
\* an exception of a collaborator leaves it at once, as the exception of the
\* call.
failVars == <<config, env, learning_phase, cnt, validation_accuracies, last, segVars>>

\* a fit that puts the exception away and goes on with the same batch
FitFailsRetry ==
    /\ pc = "train"
    /\ trainPos < TrainBatches
    /\ calls' = Append(calls, Call("fit", "train", trainPos + 1, 1, learning_phase))
    /\ err' = "UpstreamError"
    /\ UNCHANGED <<pc, trainPos, valLeft, testLeft, failVars>>

\* lines 83-89: classifier.fit raises on the batch it is given
FitFails ==
    /\ pc = "train"
    /\ trainPos < TrainBatches
    /\ calls' = Append(calls, Call("fit", "train", trainPos + 1, 1, learning_phase))
    /\ trainPos' = trainPos + 1
    /\ pc' = "raised"
    /\ err' = "UpstreamError"
    /\ UNCHANGED <<valLeft, testLeft, failVars>>

\* the generate call of a batch of the attack loop, if the branch makes one
GenerateCall ==
    IF config.attack_type = "preloaded" THEN <<>>
    ELSE <<Call("generate", IF config.use_label THEN "x,y" ELSE "x", 0, 0, learning_phase)>>

\* the batch of the attack loop gets to lines 162-172 or 176-180
Implemented ==
    config.attack_type = "preloaded" \/ config.use_label \/ ~config.targeted

\* lines 104, 128, 180: classifier.predict raises on the batch it is given
PredictFails ==
    /\ \/ /\ pc = "validate"
          /\ valLeft > 0
          /\ calls' = Append(calls, Call("predict", "validation", 0, 0, learning_phase))
          /\ valLeft' = valLeft - 1
          /\ UNCHANGED testLeft
       \/ /\ pc = "benign"
          /\ env["test"] > 0
          /\ calls' = Append(calls, Call("predict", "benign", 0, 0, learning_phase))
          /\ UNCHANGED <<valLeft, testLeft>>
       \/ /\ pc = "attack"
          /\ testLeft > 0
          /\ Implemented
          /\ calls' = calls \o GenerateCall
                            \o <<Call("predict", "adversarial", 0, 0, learning_phase)>>
          /\ testLeft' = testLeft - 1
          /\ UNCHANGED valLeft
    /\ pc' = "raised"
    /\ err' = "UpstreamError"
    /\ UNCHANGED <<trainPos, failVars>>

\* lines 172, 178: attack.generate raises on the batch it is given
GenerateFails ==
    /\ pc = "attack"
    /\ testLeft > 0
    /\ Implemented
    /\ config.attack_type # "preloaded"
    /\ calls' = calls \o GenerateCall
    /\ testLeft' = testLeft - 1
    /\ pc' = "raised"
    /\ err' = "UpstreamError"
    /\ UNCHANGED <<trainPos, valLeft, failVars>>

\* lines 81, 102, 125, 160: the generator a loop iterates over raises when
\* it is asked for its next batch
IteratorFails ==
    /\ pc \in {"train", "validate", "benign", "attack"}
    /\ calls' = Append(calls, Call("next", CASE pc = "train" -> "train"
                                            [] pc = "validate" -> "validation"
                                            [] pc = "benign" -> "test"
                                            [] pc = "attack" -> AttackSplit,
                                    0, 0, learning_phase))
    /\ pc' = "raised"
    /\ err' = "UpstreamError"
    /\ UNCHANGED <<trainPos, valLeft, testLeft, failVars>>

FailNext ==
    \/ Next
    \/ FitFails
    \/ PredictFails
    \/ GenerateFails
    \/ IteratorFails

FailSpec == Init /\ [][FailNext]_vars

\* segment() on its own
SegStart ==
    /\ SegInit
    /\ config = [weights_file |-> TRUE, attack_type |-> "generated",
                 targeted |-> FALSE, use_label |-> FALSE]
    /\ env = <<>>
    /\ pc = "idle"
    /\ err = "none"
    /\ learning_phase = "unset"
    /\ trainPos = 0
    /\ cnt = 0
    /\ valLeft = 0
    /\ validation_accuracies = <<>>
    /\ testLeft = 0
    /\ calls = <<>>
    /\ last = NoBatch

SegNext == (SegCall \/ SegAgain) /\ UNCHANGED runVars

SegSpec == SegStart /\ [][SegNext]_vars

----------------------------------------------------------------------------
(* Properties of segment(), under SegSpec *)

\* floor(T / W), from its definition
Floor(T, W) == CHOOSE q \in 0..T : q * W <= T /\ T < (q + 1) * W

\* the sum of floor(T_j / W) over the first n examples of the call
RECURSIVE FloorSum(_)
FloorSum(n) ==
    IF n = 0 THEN 0 ELSE FloorSum(n - 1) + Floor(segX[n].hi, segW)

\* output positions holding a segment of example i with the label of example i
OwnSegments(i) ==
    {k \in 1..Min(Len(segOut.x), Len(segOut.y)) :
        segOut.x[k].src = i /\ segOut.y[k] = segY[i]}

\* C1: segment(x, y, W) emits floor(T_i / W) segments for example i (none when
\* T_i < W), each with the label of example i, and the output holds the sum of
\* floor(T_i / W) segments and as many labels.
C1_SegmentCounts ==
    segPc = "done" =>
        /\ Len(segOut.x) = FloorSum(Len(segX))
        /\ Len(segOut.y) = FloorSum(Len(segX))
        /\ \A i \in 1..Len(segX) :
              Cardinality(OwnSegments(i)) = Floor(segX[i].hi, segW)

\* a call where one example is shorter than the window and is dropped while
\* another one gives two segments or more
C1_Witness ==
    /\ segPc = "done"
    /\ \E i, j \in 1..Len(segX) :
          /\ segX[i].hi > 0 /\ segX[i].hi < segW
          /\ Cardinality(OwnSegments(i)) = 0
          /\ Cardinality(OwnSegments(j)) >= 2

\* C2: the two output batches have one length; the segments of example 0 come
\* first, in time order, then those of example 1, and so on; the k-th segment
\* of example i covers the time bins [k*W, (k+1)*W) of it and carries its label.
C2_SegmentOrder ==
    segPc = "done" =>
        /\ Len(segOut.x) = Len(segOut.y)
        /\ \A i \in 1..Len(segX) :
              \A k \in 0..(Floor(segX[i].hi, segW) - 1) :
                 LET pos == FloorSum(i - 1) + k + 1
                 IN  /\ pos <= Len(segOut.x)
                     /\ segOut.x[pos].src = i
                     /\ segOut.x[pos].kind = segX[i].kind
                     /\ segOut.x[pos].lo = k * segW
                     /\ segOut.x[pos].hi = (k + 1) * segW
                     /\ segOut.y[pos] = segY[i]

\* a call on two examples with different labels, the first one cut into two
\* windows with a remainder left over, the second into one window at least
C2_Witness ==
    /\ segPc = "done"
    /\ Len(segX) >= 2
    /\ segY[1] # segY[2]
    /\ Floor(segX[1].hi, segW) = 2
    /\ segX[1].hi > 2 * segW
    /\ Floor(segX[2].hi, segW) >= 1
    /\ segOut.x[3].src = 2

----------------------------------------------------------------------------
(* Properties of _evaluate, under Spec *)

Made(op) == \E k \in DOMAIN calls : calls[k].op = op
MadeOn(op, arg) == \E k \in DOMAIN calls : calls[k].op = op /\ calls[k].arg = arg

\* a body of the attack loop has run, and it was the latest loop body
AttackBody == last.branch \in {"preloaded", "use_label", "default"}

\* the benign batch and the true labels of what the generator yielded
TrueX(item) == IF last.branch = "preloaded" THEN item.x[1] ELSE item.x
TrueY(item) ==
    IF last.branch = "preloaded" /\ config.targeted THEN item.y[1] ELSE item.y

\* C3: with targeted and use_label both set, no dataset is loaded or read and
\* nothing is fitted, predicted or reported before the configuration error.
C3_ErrorBeforeData ==
    (config.targeted /\ config.use_label) =>
        /\ ~Made("load_dataset") /\ ~Made("load_adversarial_dataset")
        /\ ~Made("fit") /\ ~Made("predict") /\ ~Made("update_task")

\* C4: in a batch of an untargeted attack, update_task is given the true
\* labels, replicated per segment, one for each adversarial prediction.
C4_UntargetedLabels ==
    (AttackBody /\ ~config.targeted) =>
        /\ last.taskY = segment(TrueX(last.item), TrueY(last.item), n_tbins).y
        /\ Len(last.taskY) = Len(last.taskP)

\* C5: in a batch of a targeted attack, update_task (adversarial) is given the
\* target labels segmented against the adversarial example, one for every
\* adversarial segment and its prediction, also where target and true label agree.
C5_TargetedLabels ==
    (AttackBody /\ config.targeted) =>
        /\ last.branch = "preloaded"
        /\ last.taskY = segment(last.item.x[2], last.item.y[2], n_tbins).y
        /\ last.taskP = Predict(last.x_adv)
        /\ Len(last.taskY) = Len(last.x_adv)
        /\ Len(last.taskY) = Len(last.taskP)
        /\ MadeOn("update_task", "adversarial")

\* a targeted batch whose example has its true label as target and gives
\* segments: each of them is reported
C5_Witness ==
    /\ AttackBody /\ config.targeted
    /\ last.item.y[1][1] = last.item.y[2][1]
    /\ Len(last.x_adv) >= 2
    /\ last.taskY = <<last.item.y[1][1], last.item.y[1][1]>>

\* C6: a validation pass with no segment at all raises no division fault.
C6_NoDivisionFault == err # "ZeroDivisionError"

\* the batch ordinals after which the validation split was loaded
ValidationLoads ==
    LET loads == SelectSeq(calls, LAMBDA c : c.op = "load_dataset" /\ c.arg = "validation")
    IN  [j \in DOMAIN loads |-> loads[j].m]

TrainingOver == pc \notin {"start", "train", "train_check", "validate"}

\* C7: a validation pass starts only after a batch whose ordinal is a multiple
\* of batches_per_epoch, once; training over E epochs of B batches makes E
\* passes, after the batches B, 2B, ..., E*B.
C7_ValidationPerEpoch ==
    ~config.weights_file /\ Loaded("train") =>
        /\ \A j \in DOMAIN ValidationLoads : ValidationLoads[j] = j * env["train"]
        /\ TrainingOver => Len(ValidationLoads) = env["nb_epochs"]

\* C8: a targeted attack that is not preloaded and has no use_label never
\* generates, reports an adversarial result or returns the results.
C8_UnimplementedFails ==
    (config.targeted /\ config.attack_type # "preloaded" /\ ~config.use_label) =>
        /\ pc # "done"
        /\ ~Made("generate") /\ ~Made("update_perturbation") /\ ~Made("results")
        /\ ~MadeOn("update_task", "adversarial")
        /\ ~MadeOn("log_task", "adversarial") /\ ~MadeOn("log_task", "targeted")

FitCalls == SelectSeq(calls, LAMBDA c : c.op = "fit")
BenignStarted == MadeOn("set_learning_phase", "infer")

\* C9: with a weights file nothing of training happens; without one, every
\* batch of the training generator has been fitted once, with nb_epochs = 1,
\* when benign evaluation starts.
C9_TrainingSkipped ==
    /\ config.weights_file =>
          /\ ~MadeOn("load_dataset", "train") /\ ~MadeOn("load_dataset", "validation")
          /\ ~Made("fit") /\ ~MadeOn("predict", "validation")
          /\ ~MadeOn("set_learning_phase", "train")
          /\ learning_phase # "train"
    /\ ~config.weights_file =>
          /\ \A j \in DOMAIN FitCalls : FitCalls[j].n = j /\ FitCalls[j].m = 1
          /\ BenignStarted => Len(FitCalls) = env["nb_epochs"] * env["train"]

\* benign evaluation has started after two epochs of two batches
C9_Witness ==
    /\ ~config.weights_file
    /\ pc = "benign"
    /\ env["nb_epochs"] = 2 /\ env["train"] = 2
    /\ Len(FitCalls) = 4

\* C10: with a preloaded attack no attack is loaded or asked to generate; the
\* segments predicted on are those of the pre-supplied adversarial example, cut
\* against the target labels if targeted and the true labels otherwise, and
\* the benign segments are those of the benign example and its true labels.
C10_PreloadedNoGenerator ==
    config.attack_type = "preloaded" =>
        /\ ~Made("load_attack") /\ ~Made("generate")
        /\ AttackBody =>
              LET adv == segment(last.item.x[2],
                                 IF config.targeted THEN last.item.y[2] ELSE last.item.y,
                                 n_tbins)
                  ben == segment(last.item.x[1], TrueY(last.item), n_tbins)
              IN  /\ last.branch = "preloaded"
                  /\ last.x_adv = adv.x
                  /\ last.taskP = Predict(adv.x)
                  /\ last.x = ben.x
                  /\ last.y = ben.y

\* a preloaded batch with adversarial segments, their target labels differing
\* from the true ones
C10_Witness ==
    /\ config.attack_type = "preloaded" /\ config.targeted
    /\ AttackBody
    /\ Len(last.x_adv) >= 2
    /\ last.x_adv[1].kind = "adversarial"
    /\ last.y # last.y_target

\* the calls of one kind made so far
CallsOf(op, arg) == SelectSeq(calls, LAMBDA c : c.op = op /\ c.arg = arg)

\* C11: with targeted and use_label both set the attack phase never begins:
\* no attack and no generator is loaded for it (the test split is loaded for
\* benign evaluation only), no batch of the attack loop is processed, nothing
\* adversarial is reported and the results are never returned.
C11_ConflictBeforeLoop ==
    (config.targeted /\ config.use_label) =>
        /\ ~Made("load_attack") /\ ~Made("load_adversarial_dataset")
        /\ Len(CallsOf("load_dataset", "test")) <= 1
        /\ pc \notin {"attack", "done"}
        /\ testLeft = 0
        /\ ~AttackBody
        /\ ~Made("generate") /\ ~MadeOn("predict", "adversarial")
        /\ ~MadeOn("update_task", "adversarial") /\ ~Made("update_perturbation")
        /\ ~MadeOn("log_task", "adversarial") /\ ~MadeOn("log_task", "targeted")
        /\ ~Made("results")

\* the conflict has been rejected, after benign evaluation of a test split
\* that holds batches
C11_Witness ==
    /\ config.targeted /\ config.use_label
    /\ err = "ValueError"
    /\ pc = "raised"
    /\ env["test"] >= 1

BenignOver == MadeOn("log_task", "benign")

\* C12: benign evaluation makes exactly one predict and exactly one benign
\* update_task, on the first test batch, then one benign log_task, however
\* many batches the test generator yields.
C12_OneBenignBatch ==
    BenignOver =>
        /\ Len(CallsOf("predict", "benign")) = 1
        /\ Len(CallsOf("update_task", "benign")) = 1
        /\ Len(CallsOf("log_task", "benign")) = 1

\* C12, amended: benign evaluation makes one benign log_task; before it, if
\* the test generator yields a batch at all, exactly one predict and then one
\* benign update_task with the segmented labels and the predictions of that
\* first batch, however many more it could yield; and neither if it yields none.
C12_AtMostOneBenignBatch ==
    /\ Len(CallsOf("log_task", "benign")) <= 1
    /\ ~BenignOver =>
          ~MadeOn("predict", "benign") /\ ~MadeOn("update_task", "benign")
    /\ BenignOver =>
          LET one == IF env["test"] >= 1 THEN 1 ELSE 0
          IN  /\ Len(CallsOf("predict", "benign")) = one
              /\ Len(CallsOf("update_task", "benign")) = one
              /\ \A k \in DOMAIN calls :
                    (calls[k].op = "predict" /\ calls[k].arg = "benign") =>
                        /\ calls[k + 1].op = "update_task" /\ calls[k + 1].arg = "benign"
                        /\ calls[k + 2].op = "log_task" /\ calls[k + 2].arg = "benign"
    /\ last.branch = "benign" =>
          /\ last.taskY = segment(last.item.x, last.item.y, n_tbins).y
          /\ last.taskP = Predict(segment(last.item.x, last.item.y, n_tbins).x)

\* benign evaluation is over on a test split of two batches, one evaluated
C12_Witness ==
    /\ pc = "attack_config"
    /\ env["test"] = 2
    /\ last.branch = "benign"
    /\ Len(last.taskY) = 2
    /\ Len(CallsOf("predict", "benign")) = 1

\* C13: segmenting the output of segment() again with the same width returns
\* it unchanged: the same segments, of the same contents and shape, and the
\* same labels in the same order.
C13_ResegmentUnchanged == segPc = "again" => segAgain = segOut

\* C13, amended: segmenting the output again with the same width returns as
\* many segments, covering the same time bins of the same examples in the same
\* order, and the same labels in the same order, but every segment has one
\* more trailing dimension of size 1, so the shape is not the same.
C13_ResegmentAddsDimension ==
    segPc = "again" =>
        /\ Len(segAgain.x) = Len(segOut.x)
        /\ segAgain.y = segOut.y
        /\ \A k \in 1..Len(segOut.x) :
              /\ segAgain.x[k].src = segOut.x[k].src
              /\ segAgain.x[k].kind = segOut.x[k].kind
              /\ segAgain.x[k].lo = segOut.x[k].lo
              /\ segAgain.x[k].hi = segOut.x[k].hi
              /\ segOut.x[k].dims = 1
              /\ segAgain.x[k].dims = 2

\* an output of three segments or more, from two examples, segmented again
C13_Witness ==
    /\ segPc = "again"
    /\ Len(segOut.x) >= 3
    /\ segOut.x[1].src # segOut.x[3].src
    /\ Len(segAgain.x) = Len(segOut.x)

\* the labels of the examples the adversarial segments are cut from: the
\* target labels in a targeted attack, the true labels otherwise
SourceLabels ==
    IF config.targeted THEN last.item.y[2] ELSE TrueY(last.item)

\* C14: in every batch of the attack loop the labels given to update_task are
\* as many as the adversarial predictions, and the k-th is the label of the
\* example the k-th adversarial segment is cut from.
C14_LabelsAligned ==
    AttackBody =>
        /\ Len(last.taskP) = Len(last.x_adv)
        /\ Len(last.taskY) = Len(last.taskP)
        /\ \A k \in 1..Len(last.taskY) :
              last.taskY[k] = SourceLabels[last.x_adv[k].src]

\* C15: a batch of the attack loop takes one branch, the first that matches of
\* preloaded, use_label, targeted (not implemented) and default; preloaded
\* wins over use_label and targeted; with use_label the attack is given the
\* benign segments and their segmented true labels, by default the benign
\* segments alone.
C15_FirstMatch ==
    /\ AttackBody =>
          LET ben == segment(TrueX(last.item), TrueY(last.item), n_tbins)
          IN  /\ last.branch = IF config.attack_type = "preloaded" THEN "preloaded"
                               ELSE IF config.use_label THEN "use_label"
                               ELSE "default"
              /\ last.branch = "default" => ~config.targeted
              /\ last.branch = "preloaded" => last.gen = "none"
              /\ last.branch = "use_label" =>
                    /\ last.gen = "x,y"
                    /\ last.x = ben.x /\ last.y = ben.y
                    /\ last.x_adv = Generate(ben.x)
              /\ last.branch = "default" =>
                    /\ last.gen = "x"
                    /\ last.x = ben.x
                    /\ last.x_adv = Generate(ben.x)
    /\ err = "NotImplementedError" =>
          config.attack_type # "preloaded" /\ ~config.use_label /\ config.targeted
    /\ \A k \in DOMAIN calls :
          calls[k].op = "generate" =>
              /\ config.attack_type # "preloaded"
              /\ calls[k].arg = IF config.use_label THEN "x,y" ELSE "x"

\* a batch of a preloaded attack that has use_label set as well
C15_Witness ==
    /\ config.attack_type = "preloaded" /\ config.use_label
    /\ AttackBody
    /\ last.branch = "preloaded"
    /\ Len(last.x_adv) >= 2

\* the batches the attack loop has gone through
AttackBatches == env[AttackSplit] - testLeft

\* C16: for every batch of the attack loop there is one predict on the
\* adversarial segments, then one adversarial update_task, then one
\* update_perturbation of the benign and the adversarial segments; when the
\* run has returned, each of the three has been called once per batch of the
\* iterator.
C16_OnePerBatch ==
    pc \in {"attack", "done"} =>
        /\ Len(CallsOf("predict", "adversarial")) = AttackBatches
        /\ Len(CallsOf("update_task", "adversarial")) = AttackBatches
        /\ Len(CallsOf("update_perturbation", "")) = AttackBatches
        /\ \A k \in DOMAIN calls :
              (calls[k].op = "predict" /\ calls[k].arg = "adversarial") =>
                  /\ k + 2 <= Len(calls)
                  /\ calls[k + 1].op = "update_task"
                  /\ calls[k + 1].arg = "adversarial"
                  /\ calls[k + 2].op = "update_perturbation"
        /\ AttackBody =>
              /\ last.x = segment(TrueX(last.item), TrueY(last.item), n_tbins).x
              /\ last.taskP = Predict(last.x_adv)
        /\ pc = "done" => AttackBatches = env[AttackSplit]

\* a run that has returned after an attack loop of two batches
C16_Witness ==
    /\ pc = "done"
    /\ env[AttackSplit] = 2
    /\ Len(CallsOf("update_perturbation", "")) = 2
    /\ Len(CallsOf("generate", "x,y")) = 2

\* the phase a call belongs to: 1 training and validation, 2 benign
\* evaluation, 3 the attack, 4 the result; 0 for the calls both evaluation
\* phases make (loading the test split)
PhaseOf(c) ==
    IF c.op \in {"load_model", "fit"} \/ c.arg \in {"train", "validation"} THEN 1
    ELSE IF c.op = "MetricsLogger" \/ c.arg \in {"infer", "benign"} THEN 2
    ELSE IF \/ c.op \in {"load_attack", "load_adversarial_dataset", "generate",
                         "update_perturbation"}
            \/ c.arg \in {"adversarial", "targeted"} THEN 3
    ELSE IF c.op = "results" THEN 4
    ELSE 0

C18_LearningPhase ==
    /\ \A k \in DOMAIN calls :
          /\ calls[k].op = "fit" => calls[k].lp = "train"
          /\ (calls[k].op = "predict" /\ calls[k].arg \in {"benign", "adversarial"}) =>
                calls[k].lp = "infer"
          /\ calls[k].op = "generate" => calls[k].lp = "infer"
    /\ \A i, j \in DOMAIN calls :
          (calls[i].op = "set_learning_phase" /\ calls[i].arg = "infer" /\ i < j) =>
              /\ calls[j].op # "set_learning_phase"
              /\ calls[j].lp = "infer"
    /\ pc \in {"train", "train_check", "validate"} => learning_phase = "train"
    /\ pc \in {"benign", "attack_config", "attack", "done"} => learning_phase = "infer"

\* a run that has fitted a batch after a validation pass, and has generated
\* adversarial segments
C18_Witness ==
    /\ \E i, j \in DOMAIN calls :
          /\ i < j
          /\ calls[i].op = "predict" /\ calls[i].arg = "validation"
          /\ calls[j].op = "fit"
    /\ Made("generate")
    /\ MadeOn("predict", "adversarial")

Failed == err = "UpstreamError"

\* the calls that go to the classifier, the attack or the metrics logger
Work(cs) ==
    SelectSeq(cs, LAMBDA c : c.op \in {"fit", "predict", "generate", "update_task",
                                       "update_perturbation", "log_task", "results"})

\* C19: an exception of fit, predict, generate or a dataset iterator ends the
\* run: the step that fails leaves the run raised with no results(), nothing
\* is fitted, predicted, generated or reported after it, and no batch is given
\* to fit, predict or generate twice - the fits have the ordinals 1, 2, ... of
\* their batches, and the attack loop generates and predicts at most once per
\* batch it has taken.
C19_FailureIsFatal ==
    [][/\ Failed' => (pc' = "raised" /\ pc # "raised" /\ ~Failed)
       /\ Failed' => \A k \in DOMAIN calls' : calls'[k].op # "results"
       /\ Failed => Work(calls') = Work(calls)
       /\ LET fits == SelectSeq(calls', LAMBDA c : c.op = "fit")
          IN  \A k \in DOMAIN fits : fits[k].n = k
       /\ LET gens  == SelectSeq(calls', LAMBDA c : c.op = "generate")
              preds == SelectSeq(calls', LAMBDA c : c.op = "predict" /\ c.arg = "adversarial")
              bens  == SelectSeq(calls', LAMBDA c : c.op = "predict" /\ c.arg = "benign")
          IN  /\ Len(bens) <= 1
              /\ Len(gens) > 0 => Len(gens) <= env'[AttackSplit] - testLeft'
              /\ Len(preds) > 0 => Len(preds) <= env'[AttackSplit] - testLeft'
      ]_vars

\* a run that a failing generate has ended in the second batch of the attack
\* loop, after training and benign evaluation
C19_Witness ==
    /\ Failed
    /\ pc = "raised"
    /\ Made("fit")
    /\ MadeOn("update_task", "benign")
    /\ Len(CallsOf("predict", "adversarial")) = 1
    /\ calls[Len(calls)].op = "generate"

====
